---- MODULE Spec2Model ----
(***************************************************************************)
(* Model of src/plugin.py: the PeriodStateManager calculator (day-in-cycle *)
(* arithmetic, stage fenceposts, impact curve, per-day cache) and the      *)
(* three host entry points built on it (PeriodStatePrompt.execute,         *)
(* PeriodStatusCommand.execute, PeriodStateUpdateHandler.execute).         *)
(*                                                                         *)
(* Dates are day ordinals (integers).  Python floats are modelled as exact *)
(* rationals [n, d]; round(x, 2) yields hundredths.  Where the exact value *)
(* lies exactly half way between two hundredths the binary64 result is     *)
(* decided by representation error far below the model's resolution, so    *)
(* Round2 admits both neighbours there and one value everywhere else.      *)
(***************************************************************************)
EXTENDS Integers, Sequences, FiniteSets, TLC

VARIABLES
    today,          \* the calendar date datetime.now().date() returns
    state_manager,  \* owner -> PeriodStateManager fields
    allocs,         \* owner -> number of state dicts built so far (object ids)
    last,           \* the most recent direct call of calculate_current_state
    config,         \* the host's configuration, read through get_config
    result          \* the outcome of the most recent entry-point execution

vars == <<today, state_manager, allocs, last, config, result>>

----------------------------------------------------------------------------
(* Bounds of the model *)

\* the clock runs over the days 0..MaxDay
MaxDay == 2
\* reference dates reach back MaxBack days before day 0 ...
MaxBack == 41
\* ... and MaxAhead days after day MaxDay (a reference date in the future)
MaxAhead == 3
\* cycle lengths of the fresh-calculator specification: -MaxNegCycle..MaxCycle
MaxCycle == 40
MaxNegCycle == 3

----------------------------------------------------------------------------
(* Strings handed in as last_period_date.  A string is the empty string, a *)
(* text that strptime rejects, or the YYYY-MM-DD text of a day.            *)

EmptyString == [kind |-> "empty", day |-> 0]
NotADate == [kind |-> "text", day |-> 0]
DateString(d) == [kind |-> "date", day |-> d]

\* datetime.strptime(s, "%Y-%m-%d").date(): the date, or ValueError
Strptime(s) ==
    IF s.kind = "date" THEN [ok |-> TRUE, date |-> s.day]
                       ELSE [ok |-> FALSE, date |-> 0]

\* truth value of a str: only "" is falsy
StrTruthy(s) == s.kind # "empty"

\* timedelta(days=14) of the fallback reference date
FallbackDays == 14

----------------------------------------------------------------------------
(* Python arithmetic *)

\* mutant of PyMod: the remainder takes the dividend's sign, as C's % does
PyMod_Truncating(a, b) ==
    LET m == IF b > 0 THEN b ELSE -b
    IN  IF a >= 0 THEN a % m ELSE -((-a) % m)

\* Python's int % int for a non-zero divisor: the result has the divisor's sign
PyMod(a, b) == IF b > 0 THEN a % b ELSE -((-a) % (-b))

\* floats as exact rationals n/d with d > 0
Rat(n, d) == IF d > 0 THEN [n |-> n, d |-> d] ELSE [n |-> -n, d |-> -d]
RatMul(x, y) == Rat(x.n * y.n, x.d * y.d)
RatAdd(x, y) == Rat(x.n * y.d + y.n * x.d, x.d * y.d)
RatSub(x, y) == Rat(x.n * y.d - y.n * x.d, x.d * y.d)
RatLe(x, y) == x.n * y.d <= y.n * x.d
RatEq(x, y) == x.n * y.d = y.n * x.d
RatMin(x, y) == IF RatLe(y, x) THEN y ELSE x

\* mutant of Round2: the value is returned without rounding
Round2_Unrounded(x) == {x}

\* round(x, 2): the nearest hundredth; both neighbours at an exact tie
Round2(x) ==
    LET q == (100 * x.n) \div x.d
        r == 100 * x.n - q * x.d
    IN  IF 2 * r < x.d THEN {Rat(q, 100)}
        ELSE IF 2 * r > x.d THEN {Rat(q + 1, 100)}
        ELSE {Rat(q, 100), Rat(q + 1, 100)}

----------------------------------------------------------------------------
(* PeriodStateManager *)

Stages == {"menstrual", "follicular", "ovulation", "luteal"}

\* mutant of StageOf: the follicular and ovulation fenceposts one day early
StageOf_ShiftedFenceposts(current_day) ==
    IF current_day <= 5 THEN "menstrual"
    ELSE IF current_day <= 12 THEN "follicular"
    ELSE IF current_day = 13 THEN "ovulation"
    ELSE "luteal"

\* the if/elif chain that selects the stage from current_day
StageOf(current_day) ==
    IF current_day <= 5 THEN "menstrual"
    ELSE IF current_day <= 13 THEN "follicular"
    ELSE IF current_day = 14 THEN "ovulation"
    ELSE "luteal"

\* base_impacts[stage]: (physical_base, psychological_base)
base_impacts(stage) ==
    CASE stage = "menstrual" -> <<Rat(8, 10), Rat(7, 10)>>
      [] stage = "follicular" -> <<Rat(1, 10), Rat(1, 10)>>
      [] stage = "ovulation" -> <<Rat(4, 10), Rat(2, 10)>>
      [] stage = "luteal" -> <<Rat(6, 10), Rat(5, 10)>>

\* intensity = 1.0 - (day_in_stage - 1) / 5 * 0.3, with day_in_stage = current_day
MenstrualIntensity(current_day) ==
    RatSub(Rat(1, 1), RatMul(Rat(current_day - 1, 5), Rat(3, 10)))

\* total_days = cycle_length - 14, the divisor of the luteal ratio
LutealTotalDays(cycle_length) == cycle_length - 14

\* mutant of LutealIntensity: the ratio is added without its 0.3 weight
LutealIntensity_Unweighted(current_day, cycle_length) ==
    RatAdd(Rat(7, 10), Rat(current_day - 14, LutealTotalDays(cycle_length)))

\* intensity = 0.7 + (day_in_stage / total_days) * 0.3, for total_days # 0
LutealIntensity(current_day, cycle_length) ==
    RatAdd(Rat(7, 10),
           RatMul(Rat(current_day - 14, LutealTotalDays(cycle_length)), Rat(3, 10)))

\* physical_base * intensity and psychological_base * intensity, before the caps
LutealUncapped(current_day, cycle_length) ==
    LET base == base_impacts("luteal")
        intensity == LutealIntensity(current_day, cycle_length)
    IN  <<RatMul(base[1], intensity), RatMul(base[2], intensity)>>

\* min(physical_base * intensity, 0.8), min(psychological_base * intensity, 0.7)
LutealCapped(current_day, cycle_length) ==
    LET raw == LutealUncapped(current_day, cycle_length)
    IN  <<RatMin(raw[1], Rat(8, 10)), RatMin(raw[2], Rat(7, 10))>>

\* the impacts of a stage before rounding
UnroundedImpacts(stage, current_day, cycle_length) ==
    IF stage = "menstrual"
    THEN <<RatMul(base_impacts(stage)[1], MenstrualIntensity(current_day)),
           RatMul(base_impacts(stage)[2], MenstrualIntensity(current_day))>>
    ELSE IF stage = "luteal"
    THEN LutealCapped(current_day, cycle_length)
    ELSE base_impacts(stage)

\* _calculate_impacts: ZeroDivisionError, or the pairs round() can return
CalculateImpacts(stage, current_day, cycle_length) ==
    IF stage = "luteal" /\ LutealTotalDays(cycle_length) = 0
    THEN [raised |-> TRUE, values |-> {}]
    ELSE LET u == UnroundedImpacts(stage, current_day, cycle_length)
         IN  [raised |-> FALSE,
              values |-> {<<p, s>> : p \in Round2(u[1]), s \in Round2(u[2])}]

\* _get_stage_name_cn: the display name of a stage (ASCII stand-ins for the text)
GetStageNameCn(stage) ==
    CASE stage = "menstrual" -> "name:menstrual"
      [] stage = "follicular" -> "name:follicular"
      [] stage = "ovulation" -> "name:ovulation"
      [] stage = "luteal" -> "name:luteal"
      [] OTHER -> "name:unknown"

\* _get_stage_description: the description of a stage, "" for an unknown one
GetStageDescription(stage) ==
    CASE stage = "menstrual" -> "desc:menstrual"
      [] stage = "follicular" -> "desc:follicular"
      [] stage = "ovulation" -> "desc:ovulation"
      [] stage = "luteal" -> "desc:luteal"
      [] OTHER -> ""

\* last_calculated_date = None
NoDate == -1

\* current_state = None
None ==
    [stage |-> "None", current_day |-> 0, cycle_length |-> 0,
     physical_impact |-> Rat(0, 1), psychological_impact |-> Rat(0, 1),
     stage_name_cn |-> "", description |-> "", id |-> 0]

\* the dict built at the end of calculate_current_state; id is its identity
StateDict(stage, current_day, cycle_length, impacts, id) ==
    [stage |-> stage, current_day |-> current_day, cycle_length |-> cycle_length,
     physical_impact |-> impacts[1], psychological_impact |-> impacts[2],
     stage_name_cn |-> GetStageNameCn(stage),
     description |-> GetStageDescription(stage), id |-> id]

\* PeriodStateManager.__init__
NewManager == [last_calculated_date |-> NoDate, current_state |-> None]

\* mutant of CacheHit: the truth test of current_state inverted
CacheHit_InvertedTruthiness(m, now) ==
    m.last_calculated_date = now /\ m.current_state = None

\* the cache test: last_calculated_date == today and current_state
CacheHit(m, now) == m.last_calculated_date = now /\ m.current_state # None

\* last_date: the parsed reference date, or now() - 14 days after a ValueError
LastDate(last_period_date, now2) ==
    IF Strptime(last_period_date).ok
    THEN Strptime(last_period_date).date
    ELSE now2 - FallbackDays

\* current_day = days_passed % cycle_length + 1, for cycle_length # 0
CurrentDay(days_passed, cycle_length) == PyMod(days_passed, cycle_length) + 1

Returned(state, hit, m) ==
    [kind |-> "return", exc |-> "", state |-> state, hit |-> hit, manager |-> m]

Raised(exc, m) ==
    [kind |-> "raise", exc |-> exc, state |-> None, hit |-> FALSE, manager |-> m]

(* calculate_current_state on manager m: now is the date read on entry, now2 *)
(* the date the fallback reads, id the identity of a dict built by the call. *)
(* The set of outcomes, each with the manager as the call leaves it.         *)
CalculateCurrentState(m, now, now2, last_period_date, cycle_length, id) ==
    IF CacheHit(m, now)
    THEN {Returned(m.current_state, TRUE, m)}
    ELSE IF cycle_length = 0
    THEN {Raised("ZeroDivisionError", m)}
    ELSE LET days_passed == now - LastDate(last_period_date, now2)
             current_day == CurrentDay(days_passed, cycle_length)
             stage == StageOf(current_day)
             imp == CalculateImpacts(stage, current_day, cycle_length)
         IN  IF imp.raised
             THEN {Raised("ZeroDivisionError", m)}
             ELSE {Returned(StateDict(stage, current_day, cycle_length, pair, id),
                            FALSE,
                            [last_calculated_date |-> now,
                             current_state |->
                                 StateDict(stage, current_day, cycle_length, pair, id)])
                   : pair \in imp.values}

\* the dates a second datetime.now() can return: the call may straddle midnight
SecondNow(m, now, last_period_date) ==
    IF ~CacheHit(m, now) /\ ~Strptime(last_period_date).ok /\ now < MaxDay
    THEN {now, now + 1}
    ELSE {now}

----------------------------------------------------------------------------
(* Direct use of one PeriodStateManager *)

Owners == {"caller", "prompt", "command"}

\* no dict is built twice on one day, so a manager builds at most this many
AllocCap == MaxDay + 1

\* before any call; in the fresh-calculator specification ref and len hold
\* the arguments the call is going to pass
NoCall ==
    [date |-> NoDate, ref |-> EmptyString, len |-> 0, kind |-> "none", exc |-> "",
     state |-> None, hit |-> FALSE, repeat |-> FALSE]

\* one call of calculate_current_state(last_period_date, cycle_length)
Call(last_period_date, cycle_length) ==
    /\ allocs["caller"] <= AllocCap
    /\ \E now2 \in SecondNow(state_manager["caller"], today, last_period_date) :
         \E out \in CalculateCurrentState(state_manager["caller"], today, now2,
                                          last_period_date, cycle_length,
                                          allocs["caller"] + 1) :
            /\ state_manager' = [state_manager EXCEPT !["caller"] = out.manager]
            /\ allocs' = [allocs EXCEPT !["caller"] =
                            IF out.kind = "return" /\ ~out.hit THEN @ + 1 ELSE @]
            /\ last' = [date |-> today, ref |-> last_period_date,
                        len |-> cycle_length, kind |-> out.kind, exc |-> out.exc,
                        state |-> out.state, hit |-> out.hit,
                        repeat |-> /\ last.kind = "return"
                                   /\ last.date = today
                                   /\ last.ref = last_period_date
                                   /\ last.len = cycle_length]
            /\ today' = now2
    /\ UNCHANGED <<config, result>>

\* midnight passes
NextDay ==
    /\ today < MaxDay
    /\ today' = today + 1
    /\ UNCHANGED <<state_manager, allocs, last, config, result>>

\* plugin.enabled, cycle.last_period_date, cycle.cycle_length with their defaults
DefaultConfig == [enabled |-> FALSE, last_period_date |-> EmptyString, cycle_length |-> 28]

\* before any entry point has run
NoResult ==
    [entry |-> "none", kind |-> "none", ok |-> FALSE, text |-> "",
     prompt |-> [empty |-> TRUE, stage_name_cn |-> "", physical |-> Rat(0, 1),
                 psychological |-> Rat(0, 1), description |-> "", guidance |-> <<>>],
     sent |-> <<>>, log |-> "", cfg |-> DefaultConfig, called |-> FALSE, exc |-> FALSE]

\* arguments of the calls made on a long-lived manager
CalcRefs == {EmptyString, NotADate, DateString(0 - FallbackDays), DateString(0),
             DateString(MaxDay + 1)}
CalcLengths == {0, 5, 15, 28}

Init ==
    /\ today = 0
    /\ state_manager = [o \in Owners |-> NewManager]
    /\ allocs = [o \in Owners |-> 0]
    /\ last = NoCall
    /\ config = DefaultConfig
    /\ result = NoResult

CallAny == \E s \in CalcRefs, L \in CalcLengths : Call(s, L)

NextCalc == CallAny \/ NextDay

\* a PeriodStateManager called again and again as the days pass
SpecCalc == Init /\ [][NextCalc]_vars

\* arguments of the call made on a fresh manager
FreshRefs == {EmptyString, NotADate}
             \cup {DateString(d) : d \in (0 - MaxBack)..(MaxDay + MaxAhead)}
FreshLengths == (0 - MaxNegCycle)..MaxCycle

InitFresh ==
    /\ today \in 0..MaxDay
    /\ state_manager = [o \in Owners |-> NewManager]
    /\ allocs = [o \in Owners |-> 0]
    /\ last \in {[NoCall EXCEPT !.ref = s, !.len = L] : s \in FreshRefs, L \in FreshLengths}
    /\ config = DefaultConfig
    /\ result = NoResult

\* the first call on a newly constructed manager
FreshCall == last.kind = "none" /\ Call(last.ref, last.len)

\* a fresh PeriodStateManager called once, for every date and cycle length
SpecFresh == InitFresh /\ [][FreshCall]_vars

----------------------------------------------------------------------------
(* The entry points the host calls *)

\* _get_behavior_guidance: the two guidance lines chosen by the threshold bands
GetBehaviorGuidance(physical, psychological) ==
    << IF RatLe(Rat(7, 10), physical) THEN "physical:rest"
       ELSE IF RatLe(Rat(4, 10), physical) THEN "physical:slow"
       ELSE "physical:good",
       IF RatLe(Rat(6, 10), psychological) THEN "psychological:sensitive"
       ELSE IF RatLe(Rat(3, 10), psychological) THEN "psychological:wavering"
       ELSE "psychological:stable" >>

\* the empty string a prompt execution returns when the feature is off or fails
EmptyPrompt ==
    [empty |-> TRUE, stage_name_cn |-> "", physical |-> Rat(0, 1),
     psychological |-> Rat(0, 1), description |-> "", guidance |-> <<>>]

\* _generate_prompt: the stripped prompt text, by the values it is formatted from
GeneratePrompt(state) ==
    [empty |-> FALSE, stage_name_cn |-> state.stage_name_cn,
     physical |-> state.physical_impact, psychological |-> state.psychological_impact,
     description |-> state.description,
     guidance |-> GetBehaviorGuidance(state.physical_impact, state.psychological_impact)]

\* the three fixed replies of the status command
NotEnabledMessage == [text |-> "plugin not enabled", emoji |-> "", state |-> None]
NotConfiguredMessage == [text |-> "configure last period date first", emoji |-> "", state |-> None]
QueryFailedMessage == [text |-> "query failed, check the configuration", emoji |-> "", state |-> None]

\* _generate_status_report: the report text, by the values it is formatted from
GenerateStatusReport(state) ==
    [text |-> "status report",
     emoji |-> CASE state.stage = "menstrual" -> "emoji:menstrual"
                 [] state.stage = "follicular" -> "emoji:follicular"
                 [] state.stage = "ovulation" -> "emoji:ovulation"
                 [] state.stage = "luteal" -> "emoji:luteal"
                 [] OTHER -> "emoji:unknown",
     state |-> state]

\* the configurations the host can hold
ConfigDates == {EmptyString, NotADate, DateString(0 - FallbackDays)}
ConfigLengths == {0, 28}
Configs == [enabled : BOOLEAN, last_period_date : ConfigDates, cycle_length : ConfigLengths]

\* the host reloads the configuration
SetConfig ==
    /\ \E c \in Configs : c # config /\ config' = c
    /\ UNCHANGED <<today, state_manager, allocs, last, result>>

(* the calls self.state_manager.calculate_current_state(last_period_date,  *)
(* cycle_length) can make for an entry point: <<now2, outcome>> pairs      *)
OwnerCalculate(owner) ==
    UNION {{<<now2, out>> :
              out \in CalculateCurrentState(state_manager[owner], today, now2,
                                            config.last_period_date, config.cycle_length,
                                            allocs[owner] + 1)}
           : now2 \in SecondNow(state_manager[owner], today, config.last_period_date)}

\* what an execution leaves behind when it did not call the calculator
NotCalled(owner) ==
    [now2 |-> today, manager |-> state_manager[owner], built |-> FALSE, called |-> FALSE]

\* what an execution leaves behind when the calculator call ended with `out`
Called(now2, out) ==
    [now2 |-> now2, manager |-> out.manager,
     built |-> out.kind = "return" /\ ~out.hit, called |-> TRUE]

\* the variables an execution of owner's entry point changes besides result
Leave(owner, left) ==
    /\ today' = left.now2
    /\ state_manager' = [state_manager EXCEPT ![owner] = left.manager]
    /\ allocs' = [allocs EXCEPT ![owner] = IF left.built THEN @ + 1 ELSE @]
    /\ UNCHANGED <<last, config>>

(* the try block of PeriodStatePrompt.execute: the value it returns or the *)
(* exception it raises, and what it leaves behind                          *)
PromptTry(cfgFail) ==
    IF cfgFail
    THEN {[exc |-> TRUE, prompt |-> EmptyPrompt, left |-> NotCalled("prompt")]}
    ELSE IF ~config.enabled \/ ~StrTruthy(config.last_period_date)
    THEN {[exc |-> FALSE, prompt |-> EmptyPrompt, left |-> NotCalled("prompt")]}
    ELSE {IF c[2].kind = "raise"
          THEN [exc |-> TRUE, prompt |-> EmptyPrompt, left |-> Called(c[1], c[2])]
          ELSE [exc |-> FALSE, prompt |-> GeneratePrompt(c[2].state),
                left |-> Called(c[1], c[2])]
          : c \in OwnerCalculate("prompt")}

\* PeriodStatePrompt.execute; cfgFail: a get_config call raises
PromptExecute(cfgFail) ==
    /\ allocs["prompt"] <= AllocCap
    /\ \E t \in PromptTry(cfgFail) :
         /\ Leave("prompt", t.left)
         /\ result' = [entry |-> "prompt", kind |-> "return", ok |-> ~t.exc,
                       text |-> "", prompt |-> t.prompt, sent |-> <<>>,
                       log |-> IF t.exc THEN "error" ELSE "",
                       cfg |-> config, called |-> t.left.called, exc |-> t.exc]

\* mutant of CommandTry: the reference date is tested before plugin.enabled
CommandTry_DateFirst(cfgFail, sendFail) ==
    IF cfgFail
    THEN {[exc |-> TRUE, text |-> "", sent |-> <<>>, left |-> NotCalled("command")]}
    ELSE IF ~StrTruthy(config.last_period_date)
    THEN {IF sendFail
          THEN [exc |-> TRUE, text |-> "", sent |-> <<>>, left |-> NotCalled("command")]
          ELSE [exc |-> FALSE, text |-> "period date not configured",
                sent |-> <<NotConfiguredMessage>>, left |-> NotCalled("command")]}
    ELSE IF ~config.enabled
    THEN {IF sendFail
          THEN [exc |-> TRUE, text |-> "", sent |-> <<>>, left |-> NotCalled("command")]
          ELSE [exc |-> FALSE, text |-> "plugin not enabled",
                sent |-> <<NotEnabledMessage>>, left |-> NotCalled("command")]}
    ELSE {IF c[2].kind = "raise" \/ sendFail
          THEN [exc |-> TRUE, text |-> "", sent |-> <<>>, left |-> Called(c[1], c[2])]
          ELSE [exc |-> FALSE, text |-> "sent status report",
                sent |-> <<GenerateStatusReport(c[2].state)>>,
                left |-> Called(c[1], c[2])]
          : c \in OwnerCalculate("command")}

(* the try block of PeriodStatusCommand.execute: the tuple it returns or   *)
(* the exception it raises, the replies delivered, and what it leaves      *)
CommandTry(cfgFail, sendFail) ==
    IF cfgFail
    THEN {[exc |-> TRUE, text |-> "", sent |-> <<>>, left |-> NotCalled("command")]}
    ELSE IF ~config.enabled
    THEN {IF sendFail
          THEN [exc |-> TRUE, text |-> "", sent |-> <<>>, left |-> NotCalled("command")]
          ELSE [exc |-> FALSE, text |-> "plugin not enabled",
                sent |-> <<NotEnabledMessage>>, left |-> NotCalled("command")]}
    ELSE IF ~StrTruthy(config.last_period_date)
    THEN {IF sendFail
          THEN [exc |-> TRUE, text |-> "", sent |-> <<>>, left |-> NotCalled("command")]
          ELSE [exc |-> FALSE, text |-> "period date not configured",
                sent |-> <<NotConfiguredMessage>>, left |-> NotCalled("command")]}
    ELSE {IF c[2].kind = "raise" \/ sendFail
          THEN [exc |-> TRUE, text |-> "", sent |-> <<>>, left |-> Called(c[1], c[2])]
          ELSE [exc |-> FALSE, text |-> "sent status report",
                sent |-> <<GenerateStatusReport(c[2].state)>>,
                left |-> Called(c[1], c[2])]
          : c \in OwnerCalculate("command")}

(* PeriodStatusCommand.execute; cfgFail: a get_config call raises,         *)
(* sendFail: the send_text of the try block raises, sendFailAgain: the     *)
(* send_text of the except block raises                                    *)
CommandExecute(cfgFail, sendFail, sendFailAgain) ==
    /\ allocs["command"] <= AllocCap
    /\ \E t \in CommandTry(cfgFail, sendFail) :
         /\ Leave("command", t.left)
         /\ result' =
              IF ~t.exc
              THEN [entry |-> "command", kind |-> "return", ok |-> TRUE,
                    text |-> t.text, prompt |-> EmptyPrompt, sent |-> t.sent,
                    log |-> "", cfg |-> config, called |-> t.left.called, exc |-> FALSE]
              ELSE IF sendFailAgain
              THEN [entry |-> "command", kind |-> "raise", ok |-> FALSE,
                    text |-> "", prompt |-> EmptyPrompt, sent |-> t.sent,
                    log |-> "error", cfg |-> config, called |-> t.left.called,
                    exc |-> TRUE]
              ELSE [entry |-> "command", kind |-> "return", ok |-> FALSE,
                    text |-> "query failed", prompt |-> EmptyPrompt,
                    sent |-> Append(t.sent, QueryFailedMessage),
                    log |-> "error", cfg |-> config, called |-> t.left.called,
                    exc |-> TRUE]

\* PeriodStateUpdateHandler.execute; cfgFail: a get_config call raises
HandlerExecute(cfgFail) ==
    /\ result' = [entry |-> "handler", kind |-> "return", ok |-> TRUE,
                  text |-> "", prompt |-> EmptyPrompt, sent |-> <<>>,
                  log |-> IF cfgFail THEN "error"
                          ELSE IF config.enabled /\ StrTruthy(config.last_period_date)
                          THEN "info"
                          ELSE IF config.enabled THEN "warning"
                          ELSE "",
                  cfg |-> config, called |-> FALSE, exc |-> cfgFail]
    /\ UNCHANGED <<today, state_manager, allocs, last, config>>

\* the host's collaborators (get_config, send_text) never raise
PromptRuns == PromptExecute(FALSE)
CommandRuns == CommandExecute(FALSE, FALSE, FALSE)
HandlerRuns == HandlerExecute(FALSE)

Next == PromptRuns \/ CommandRuns \/ HandlerRuns \/ SetConfig \/ NextDay

\* the plugin driven by a host whose get_config and send_text do not raise
Spec == Init /\ [][Next]_vars

\* the host's collaborators may raise on any call
PromptMayFail == \E cfgFail \in BOOLEAN : PromptExecute(cfgFail)
CommandMayFail ==
    \E cfgFail \in BOOLEAN, sendFail \in BOOLEAN, sendFailAgain \in BOOLEAN :
        CommandExecute(cfgFail, sendFail, sendFailAgain)
HandlerMayFail == \E cfgFail \in BOOLEAN : HandlerExecute(cfgFail)

NextFaulty == PromptMayFail \/ CommandMayFail \/ HandlerMayFail \/ SetConfig \/ NextDay

\* the plugin driven by a host whose get_config and send_text may raise
SpecFaulty == Init /\ [][NextFaulty]_vars

----------------------------------------------------------------------------
(* Claims about calculate_current_state *)

InUnitInterval(x) == RatLe(Rat(0, 1), x) /\ RatLe(x, Rat(1, 1))
IsHundredth(x) == (100 * x.n) % x.d = 0
Populated(s) ==
    /\ s.stage \in Stages
    /\ s.stage_name_cn = GetStageNameCn(s.stage) /\ s.stage_name_cn # ""
    /\ s.description = GetStageDescription(s.stage) /\ s.description # ""
    /\ <<s.physical_impact, s.psychological_impact>>
           \in CalculateImpacts(s.stage, s.current_day, s.cycle_length).values
CyclicSucc(d, cycle_length) == IF d < cycle_length THEN d + 1 ELSE 1

(* C1: every record calculate_current_state returns is the one determined  *)
(* by the arguments of that call and the current date: its cycle_length is *)
(* the cycleLength passed, its current_day is                              *)
(* ((today - referenceDate) mod cycleLength) + 1 for the referenceDate     *)
(* passed, and stage and impacts are derived from that current_day.        *)
C1_ReturnDeterminedByArguments ==
    last.kind = "return" =>
        /\ last.state.cycle_length = last.len
        /\ (Strptime(last.ref).ok /\ last.len # 0) =>
               last.state.current_day
                   = PyMod(last.date - Strptime(last.ref).date, last.len) + 1
        /\ last.state.stage = StageOf(last.state.current_day)
        /\ <<last.state.physical_impact, last.state.psychological_impact>>
               \in CalculateImpacts(last.state.stage, last.state.current_day,
                                    last.state.cycle_length).values

(* C2: a call on the same calendar date with the same arguments as the     *)
(* call before it, which returned, returns the identical state object and  *)
(* recomputes nothing: the manager's cache and last_calculated_date and    *)
(* the number of dicts built are unchanged.                                *)
C2_SameDayRepeatReturnsCachedObject ==
    [][(/\ last.kind = "return"
        /\ last'.date = last.date
        /\ last'.ref = last.ref
        /\ last'.len = last.len)
       => (/\ last'.kind = "return"
           /\ last'.state = last.state
           /\ state_manager' = state_manager
           /\ allocs' = allocs)]_vars

C2_Witness ==
    /\ last.kind = "return" /\ last.repeat /\ last.hit
    /\ last.state = state_manager["caller"].current_state
    /\ allocs["caller"] = 1

(* C3: for every parseable referenceDate, past, today or future, and every *)
(* cycleLength > 0 the computed current_day lies in 1..cycleLength.        *)
C3_DayIndexInRange ==
    (last.kind # "none" /\ Strptime(last.ref).ok /\ last.len > 0) =>
        /\ last.kind = "return"
        /\ ~last.hit
        /\ last.state.current_day >= 1
        /\ last.state.current_day <= last.len

C3_Witness ==
    /\ last.kind = "return" /\ ~last.hit
    /\ Strptime(last.ref).ok /\ Strptime(last.ref).date > last.date
    /\ last.len > 1
    /\ last.state.current_day = last.len

(* C4 as stated: referenceDate 14 days before today and cycleLength 28 on  *)
(* a fresh calculator give dayIndex 1, stage menstrual, impacts 0.80/0.70. *)
C4_AsStated ==
    (last.kind # "none" /\ last.ref = DateString(last.date - 14) /\ last.len = 28) =>
        /\ last.kind = "return"
        /\ last.state.current_day = 1
        /\ last.state.stage = "menstrual"
        /\ last.state.physical_impact = Rat(80, 100)
        /\ last.state.psychological_impact = Rat(70, 100)

(* C4 amended: referenceDate 14 days before today and cycleLength 28 on a  *)
(* fresh calculator give dayIndex 15, stage luteal, physicalImpact 0.43    *)
(* and psychologicalImpact 0.36.                                           *)
C4_FourteenDaysBackIsDay15 ==
    (last.kind # "none" /\ last.ref = DateString(last.date - 14) /\ last.len = 28) =>
        /\ last.kind = "return"
        /\ last.state.current_day = 15
        /\ last.state.stage = "luteal"
        /\ last.state.physical_impact = Rat(43, 100)
        /\ last.state.psychological_impact = Rat(36, 100)

C4_Witness ==
    /\ last.kind = "return" /\ ~last.hit
    /\ last.ref = DateString(last.date - 14) /\ last.len = 28

(* C5: for every cycleLength in 20..40 and every current_day the stage     *)
(* fenceposts select, both impacts are within [0, 1] and are multiples of  *)
(* 0.01.                                                                   *)
C5_ImpactsBoundedAndRounded ==
    (last.kind = "return" /\ last.len \in 20..40) =>
        /\ last.state.current_day \in 1..last.len
        /\ InUnitInterval(last.state.physical_impact)
        /\ InUnitInterval(last.state.psychological_impact)
        /\ IsHundredth(last.state.physical_impact)
        /\ IsHundredth(last.state.psychological_impact)

C5_Witness ==
    /\ last.kind = "return" /\ last.len = 40
    /\ last.state.stage = "luteal" /\ last.state.current_day = 39
    /\ last.state.physical_impact = Rat(59, 100)

(* C6: when last_period_date does not parse, calculate_current_state       *)
(* raises nothing for any cycleLength > 0 and returns a fully populated    *)
(* state whose current_day is (14 mod cycleLength) + 1.                    *)
C6_FallbackDayIndex ==
    (last.kind # "none" /\ ~Strptime(last.ref).ok /\ last.len > 0) =>
        /\ last.kind = "return"
        /\ last.state.current_day = PyMod(14, last.len) + 1
        /\ Populated(last.state)

(* C9: a call on a later day with the same parseable referenceDate and the *)
(* same cycleLength > 0 as the call before it does not return that call's  *)
(* record but one computed for the later day; one day later its            *)
(* current_day is the cyclic successor of the earlier record's; and        *)
(* last_calculated_date is the date of the computation.                    *)
C9_NextDayRecomputesSuccessor ==
    [][(/\ last.kind = "return"
        /\ last'.date > last.date
        /\ last'.ref = last.ref
        /\ last'.len = last.len
        /\ Strptime(last.ref).ok
        /\ last.len > 0)
       => (/\ last'.kind = "return"
           /\ ~last'.hit
           /\ last'.state.id # last.state.id
           /\ state_manager'["caller"].last_calculated_date = last'.date
           /\ (last'.date = last.date + 1) =>
                  last'.state.current_day
                      = CyclicSucc(last.state.current_day, last.len))]_vars

(* C10: for every cycleLength > 0 the luteal branch is entered only when   *)
(* cycleLength >= 15, so total_days >= 1 and day_in_stage / total_days is  *)
(* in (0, 1], the intensity is at most 1.0 and the caps change nothing;    *)
(* calculate_current_state divides by zero for cycleLength = 0 only.       *)
C10_LutealDivisionSafe ==
    /\ (last.kind = "return" /\ ~last.hit /\ last.len > 0
            /\ last.state.stage = "luteal") =>
           /\ last.len >= 15
           /\ LutealTotalDays(last.len) >= 1
           /\ last.state.current_day - 14 >= 1
           /\ last.state.current_day - 14 <= LutealTotalDays(last.len)
           /\ RatLe(LutealIntensity(last.state.current_day, last.len), Rat(1, 1))
           /\ LutealCapped(last.state.current_day, last.len)
                  = LutealUncapped(last.state.current_day, last.len)
    /\ last.kind = "raise" => (last.exc = "ZeroDivisionError" /\ last.len = 0)
    /\ (last.kind # "none" /\ last.len = 0) => last.kind = "raise"

C10_Witness ==
    /\ last.kind = "return" /\ ~last.hit
    /\ last.len = 15 /\ last.state.stage = "luteal"
    /\ LutealIntensity(last.state.current_day, last.len) = Rat(100, 100)

----------------------------------------------------------------------------
(* Claims about the entry points *)

(* C7: the status command tests plugin.enabled first, then the reference   *)
(* date, then computes.  Disabled: it sends the "not enabled" reply and    *)
(* returns success whatever the rest of the configuration is.  Enabled     *)
(* with an empty date: it sends the distinct "not configured" reply and    *)
(* returns success.  In both cases the calculator is not called and its    *)
(* cache is unchanged.  Only a failed computation sends the third,         *)
(* different reply and returns a failed result.                            *)
C7_StatusPreconditionOrder ==
    [][result'.entry = "command" =>
        /\ ~result'.cfg.enabled =>
              /\ result'.kind = "return" /\ result'.ok
              /\ result'.sent = <<NotEnabledMessage>>
              /\ ~result'.called
              /\ state_manager' = state_manager /\ allocs' = allocs
        /\ (result'.cfg.enabled /\ ~StrTruthy(result'.cfg.last_period_date)) =>
              /\ result'.kind = "return" /\ result'.ok
              /\ result'.sent = <<NotConfiguredMessage>>
              /\ ~result'.called
              /\ state_manager' = state_manager /\ allocs' = allocs
        /\ (result'.kind = "return" /\ ~result'.ok) =>
              /\ result'.cfg.enabled /\ StrTruthy(result'.cfg.last_period_date)
              /\ result'.called /\ result'.exc
              /\ result'.sent = <<QueryFailedMessage>>
        /\ result'.ok = (QueryFailedMessage \notin {result'.sent[i] : i \in DOMAIN result'.sent})
        /\ Cardinality({NotEnabledMessage, NotConfiguredMessage, QueryFailedMessage}) = 3
    ]_vars

C7_Witness ==
    /\ result.entry = "command" /\ result.kind = "return" /\ result.ok
    /\ result.cfg.enabled /\ ~StrTruthy(result.cfg.last_period_date)
    /\ result.sent = <<NotConfiguredMessage>>
    /\ ~result.called
    /\ state_manager["command"].current_state # None

(* C8: no exception propagates to the host from any entry point, for every *)
(* configuration and every failure of get_config, the state computation or *)
(* send_text: a failed prompt execution returns the empty string, a failed *)
(* command execution returns a failed result after the generic failure     *)
(* reply, and the startup handler returns a successful HandlerResult.      *)
C8_NoExceptionReachesHost ==
    /\ result.kind # "raise"
    /\ (result.entry = "prompt" /\ result.exc) => result.prompt = EmptyPrompt
    /\ (result.entry = "command" /\ result.exc) =>
           /\ ~result.ok
           /\ result.sent # <<>>
           /\ result.sent[Len(result.sent)] = QueryFailedMessage
    /\ result.entry = "handler" => result.ok

====
